---- MODULE Spec2Model ----
(***************************************************************************)
(* A model of the tonal crate: Pitch, Length, Chord (src/src/lib.rs) and   *)
(* the Samples iterator (src/src/synth.rs).                                *)
(*                                                                         *)
(* Floating point values are represented exactly by integers in a fixed    *)
(* unit, chosen so that every value the model computes is the value the    *)
(* f64 computation produces:                                               *)
(*   - frequencies handed to new_from_freq are in millihertz;              *)
(*   - Pitch::freq returns eighths of a hertz (exact for the pitches that  *)
(*     lie whole octaves from A4, the only ones a chord holds here);       *)
(*   - Chord.volume is in eighths, Samples.volume in units of one;         *)
(*   - bpm and rate are whole numbers;                                     *)
(*   - a Duration is the pair (secs, nanos) that std::time::Duration is.   *)
(* The sample rates and pitches are chosen so that the phase of every      *)
(* harmonic at every sample index is a whole number of eighths of a turn,  *)
(* where sin is 0, +-sqrt(1/2) or +-1.                                     *)
(***************************************************************************)
EXTENDS Integers, Sequences, FiniteSets, TLC

VARIABLES chord, streams, origin, out, calls, ret, overflow_checks

vars == <<chord, streams, origin, out, calls, ret, overflow_checks>>

(***************************************************************************)
(* Bounds of the model.                                                    *)
(***************************************************************************)
MaxPitches == 2
ExtraCalls == 1

(***************************************************************************)
(* Fixed-width integers and float-to-integer casts.                        *)
(***************************************************************************)
I16Min == -(2^15)
I16Max == 2^15 - 1
I32Min == -2147483647 - 1
I32Max == 2147483647
U8Max == 2^8 - 1

InI16(x) == I16Min <= x /\ x <= I16Max

\* x reduced modulo 2^16 into the i16 range: what i16 addition yields when
\* overflow checks are off.
Wrap16(x) == ((x + 2^15) % 2^16) - 2^15

\* a / b rounded toward zero, b > 0: the integer part an `as` cast keeps.
TruncDiv(a, b) == IF a >= 0 THEN a \div b ELSE -((-a) \div b)

\* `x as i16` for a float x already truncated toward zero: the cast saturates
\* at the bounds of i16.
CastI16(x) == IF x < I16Min THEN I16Min ELSE IF x > I16Max THEN I16Max ELSE x

\* `x as i32` for a rounded float x: the cast saturates at the bounds of i32.
CastI32(x) == IF x < I32Min THEN I32Min ELSE IF x > I32Max THEN I32Max ELSE x

(***************************************************************************)
(* enum Name and enum Length: the discriminants the code casts with `as`.  *)
(***************************************************************************)
Name ==
    [A |-> 9, AS |-> 10, B |-> 11, C |-> 0, CS |-> 1, D |-> 2,
     DS |-> 3, E |-> 4, F |-> 5, FS |-> 6, G |-> 7, GS |-> 8]

Names == DOMAIN Name

Length ==
    [Sixteenth |-> 2, Eigth |-> 1, Quarter |-> 0, Half |-> -1, Whole |-> -2]

Lengths == DOMAIN Length

(***************************************************************************)
(* Pitch                                                                   *)
(***************************************************************************)
\* Pitch::new(name, octave): octave is a u8 widened to i32.
\* (new_unshifted: the same without the shift from C to A.)
new_unshifted(name, octave) == (octave - 4) * 12 + Name[name]
new(name, octave) == (octave - 4) * 12 + Name[name] - 9

\* Upper edges, in millihertz, of the twelve semitone bands of the octave
\* that starts a quarter tone below A4: 440 * 2^((2k+1)/24) for k = 0..11.
\* A frequency f rounds to semitone k exactly when it lies below edge k and
\* not below edge k-1 (the edges are irrational, so no f sits on one).
SemitoneEdges ==
    <<452892, 479823, 508355, 538583, 570609, 604539,
      640487, 678572, 718922, 761672, 806963, 854948>>

OctaveFloor == 427474

\* round(12 * log2(n / d / 440 Hz)) for the frequency n/d millihertz, n, d > 0.
RECURSIVE log2_semitones(_, _)
log2_semitones(n, d) ==
    IF n <= OctaveFloor * d THEN log2_semitones(2 * n, d) - 12
    ELSE IF n > SemitoneEdges[12] * d THEN log2_semitones(n, 2 * d) + 12
    ELSE CHOOSE k \in 0..11 :
            /\ n <= SemitoneEdges[k + 1] * d
            /\ \A j \in 0..(k - 1) : n > SemitoneEdges[j + 1] * d

\* Pitch::new_from_freq(freq), freq in millihertz: the assertion runs first;
\* `log` records whether the logarithm was evaluated.
\* (new_from_freq_unchecked: the same with the assertion freq >= 0.0, so that
\* log2(0) = -inf is evaluated and cast.)
new_from_freq_unchecked(f) ==
    IF f < 0
    THEN [kind |-> "panic", val |-> 0, log |-> FALSE]
    ELSE IF f = 0
    THEN [kind |-> "ok", val |-> I32Min, log |-> TRUE]
    ELSE [kind |-> "ok", val |-> log2_semitones(f, 1), log |-> TRUE]
new_from_freq(f) ==
    IF ~(f > 0)
    THEN [kind |-> "panic", val |-> 0, log |-> FALSE]
    ELSE [kind |-> "ok", val |-> CastI32(log2_semitones(f, 1)), log |-> TRUE]

\* Pitch::freq(self) in eighths of a hertz: 440 * (2^(1/12))^p, for p a
\* whole number of octaves (p a multiple of 12) no lower than -72.
freq(p) == IF p >= 0 THEN 3520 * 2^(p \div 12) ELSE 3520 \div 2^((-p) \div 12)

(***************************************************************************)
(* Length::duration                                                        *)
(***************************************************************************)
\* Duration::from_secs_f64 of the quotient n / d (n > 0): it panics when the
\* value is negative or not finite (d = 0 is 60.0 / 0.0 = +inf), and otherwise
\* keeps whole seconds and the nearest whole number of nanoseconds.
\* (from_secs_f64_unchecked: a conversion that clamps instead of panicking.)
from_secs_f64_unchecked(n, d) ==
    IF d = 0
    THEN [kind |-> "ok", secs |-> 0, nanos |-> 0]
    ELSE LET a == IF d < 0 THEN -d ELSE d
         IN  [kind |-> "ok", secs |-> n \div a, nanos |-> 0]
from_secs_f64(n, d) ==
    IF d <= 0
    THEN [kind |-> "panic", secs |-> 0, nanos |-> 0]
    ELSE LET r0 == n % d
             q1 == (r0 * 1000) \div d
             r1 == (r0 * 1000) % d
             q2 == (r1 * 1000) \div d
             r2 == (r1 * 1000) % d
             q3 == (r2 * 1000) \div d
             r3 == (r2 * 1000) % d
             up == IF 2 * r3 >= d THEN 1 ELSE 0
         IN  [kind |-> "ok", secs |-> n \div d,
              nanos |-> q1 * 1000000 + q2 * 1000 + q3 + up]

\* Length::duration(self, bpm): 60.0 / (bpm * 2^(self as i32)), the quotient
\* kept as a fraction of whole numbers.
duration(length, bpm) ==
    LET k == Length[length]
    IN  IF k < 0
        THEN from_secs_f64(60 * 2^(-k), bpm)
        ELSE from_secs_f64(60, bpm * 2^k)

(***************************************************************************)
(* Chord::samples and the Samples iterator                                 *)
(***************************************************************************)
\* (d.as_secs_f64() * rate).round() as u32: the product rounded half away
\* from zero.  secs * 10^9 + nanos is multiplied in two parts so that every
\* intermediate value stays below 2^31.  The counts of the model stay far
\* below u32::MAX, where the cast would saturate.
round(d, rate) ==
    LET a == (d.nanos \div 1000000) * rate
        b == (d.nanos % 1000000) * rate
        rem == (a % 1000) * 1000000 + b
        frac == rem % 1000000000
        up == IF 2 * frac >= 1000000000 THEN 1 ELSE 0
    IN  d.secs * rate + a \div 1000 + rem \div 1000000000 + up

\* Samples::new(0, max, &self.pitches, rate, self.volume * 8192.0), or the
\* panic that Length::duration raised.  Chord.volume is in eighths.
samples(c, bpm, rate) ==
    LET d == duration(c.length, bpm)
    IN  IF d.kind = "panic"
        THEN [kind |-> "panic"]
        ELSE [kind |-> "ok",
              stream |-> [live |-> TRUE,
                          current |-> 0,
                          max |-> round(d, rate),
                          pitches |-> c.pitches,
                          rate |-> rate,
                          volume |-> (c.volume * 8192) \div 8]]

\* f64::sin at k eighths of a turn, times 10^4.
Sin8(k) == <<0, 7071, 10000, 7071, 0, -7071, -10000, -7071>>[(k % 8) + 1]

\* The closure of the inner map: harmonic h of pitch p at the current index,
\* ((time * 2 * PI * f).sin() * v) as i16.
harmonic(s, p, h) ==
    LET f == freq(p) * h
        v == s.volume \div 2^(h - 1)
        turns8 == (s.current * f) \div s.rate
    IN  CastI16(TruncDiv(Sin8(turns8) * v, 10000))

\* Iterator::sum::<i16>(): a fold of `+` from 0.  acc.val is the sum so far,
\* wrapped at each step; acc.overflow tells whether some addition left the
\* i16 range.
Zero == [val |-> 0, overflow |-> FALSE]

RECURSIVE sum_i16(_, _)
sum_i16(xs, acc) ==
    IF xs = <<>>
    THEN acc
    ELSE sum_i16(Tail(xs),
                 [val |-> Wrap16(acc.val + Head(xs)),
                  overflow |-> acc.overflow \/ ~InI16(acc.val + Head(xs))])

\* Samples::next(&mut self).  With overflow checks on, `+` panics when it
\* overflows; with them off it wraps.  The panic precedes `current += 1`.
\* (next_empty_none: the same, but a stream over no pitches counts as
\* exhausted.)
next_empty_none(s, checks) ==
    IF s.current >= s.max \/ s.pitches = <<>>
    THEN [kind |-> "None", val |-> 0, stream |-> s]
    ELSE LET per_pitch == [i \in 1..Len(s.pitches) |->
                              sum_i16([h \in 1..4 |-> harmonic(s, s.pitches[i], h)], Zero)]
             total == sum_i16([i \in 1..Len(s.pitches) |-> per_pitch[i].val], Zero)
             overflow == \/ total.overflow
                         \/ \E i \in 1..Len(s.pitches) : per_pitch[i].overflow
         IN  IF checks /\ overflow
             THEN [kind |-> "panic", val |-> 0, stream |-> s]
             ELSE [kind |-> "Some", val |-> total.val,
                   stream |-> [s EXCEPT !.current = s.current + 1]]
next(s, checks) ==
    IF s.current >= s.max
    THEN [kind |-> "None", val |-> 0, stream |-> s]
    ELSE LET per_pitch == [i \in 1..Len(s.pitches) |->
                              sum_i16([h \in 1..4 |-> harmonic(s, s.pitches[i], h)], Zero)]
             total == sum_i16([i \in 1..Len(s.pitches) |-> per_pitch[i].val], Zero)
             overflow == \/ total.overflow
                         \/ \E i \in 1..Len(s.pitches) : per_pitch[i].overflow
         IN  IF checks /\ overflow
             THEN [kind |-> "panic", val |-> 0, stream |-> s]
             ELSE [kind |-> "Some", val |-> total.val,
                   stream |-> [s EXCEPT !.current = s.current + 1]]

\* Samples::size_hint(&self): (max - current) as usize, twice.  The u32
\* subtraction cannot be formed when current exceeds max.
size_hint(s) ==
    IF s.max < s.current
    THEN [kind |-> "underflow", lo |-> 0, hi |-> 0]
    ELSE [kind |-> "ok", lo |-> s.max - s.current, hi |-> s.max - s.current]

(***************************************************************************)
(* The inputs of the model.                                                *)
(***************************************************************************)
\* Pitches 5 and 4 octaves below A4: 13.75 Hz and 27.5 Hz.
Pitches == {-60, -48}

\* Chord.volume in eighths: 0.5 and 4.0.
Volumes == {4, 32}

\* Sample rates in hertz (u32).
Rates == {55, 110}

\* Tempos: negative, zero and positive.
Bpms == {-6000, 0, 6000}

\* Frequencies in millihertz handed to Pitch::new_from_freq.
Freqs ==
    {-440000, -1, 0, 1, 27500, 130810, 261630, 427474, 427475, 440000,
     452892, 452893, 466160, 880000, 1760000}

Octaves == 0..U8Max

Streams == {1, 2}

RECURSIVE SeqsUpTo(_, _)
SeqsUpTo(S, n) ==
    IF n = 0
    THEN {<<>>}
    ELSE LET shorter == SeqsUpTo(S, n - 1)
         IN  shorter \cup {Append(q, x) : q \in shorter, x \in S}

Chords ==
    [pitches : SeqsUpTo(Pitches, MaxPitches), length : Lengths, volume : Volumes]

\* A slot that holds no stream.
Idle ==
    [live |-> FALSE, current |-> 0, max |-> 0, pitches |-> <<>>,
     rate |-> 0, volume |-> 0]

NoCall == [op |-> "none", stream |-> 0, arg |-> <<>>, kind |-> "ok", val |-> 0, log |-> FALSE]

Aborted == ret.kind = "panic"

(***************************************************************************)
(* The stream machine: one chord, up to two streams borrowed from it.      *)
(*   origin[i]  the (bpm, rate) stream i was requested with                *)
(*   out[i]     the samples stream i has yielded, in order                 *)
(*   calls[i]   the number of next() calls made on stream i                *)
(*   ret        the last call and what it returned                         *)
(*   overflow_checks  whether the build checks integer overflow            *)
(***************************************************************************)
Init ==
    /\ chord \in Chords
    /\ streams = [i \in Streams |-> Idle]
    /\ origin = [i \in Streams |-> <<0, 0>>]
    /\ out = [i \in Streams |-> <<>>]
    /\ calls = [i \in Streams |-> 0]
    /\ ret = NoCall
    /\ overflow_checks \in BOOLEAN

\* let s = chord.samples(bpm, rate);
\* (Samples_taking: the same, but the pitches are moved out of the chord.)
Samples_taking(i, bpm, rate) ==
    /\ ~Aborted
    /\ ~streams[i].live
    /\ LET r == samples(chord, bpm, rate)
       IN  /\ ret' = [op |-> "samples", stream |-> i, arg |-> <<bpm, rate>>,
                      kind |-> r.kind, val |-> 0, log |-> FALSE]
           /\ IF r.kind = "panic"
              THEN UNCHANGED <<streams, origin, chord>>
              ELSE /\ streams' = [streams EXCEPT ![i] = r.stream]
                   /\ origin' = [origin EXCEPT ![i] = <<bpm, rate>>]
                   /\ chord' = [chord EXCEPT !.pitches = <<>>]
    /\ out' = [out EXCEPT ![i] = <<>>]
    /\ calls' = [calls EXCEPT ![i] = 0]
    /\ UNCHANGED overflow_checks
Samples(i, bpm, rate) ==
    /\ ~Aborted
    /\ ~streams[i].live
    /\ LET r == samples(chord, bpm, rate)
       IN  /\ ret' = [op |-> "samples", stream |-> i, arg |-> <<bpm, rate>>,
                      kind |-> r.kind, val |-> 0, log |-> FALSE]
           /\ IF r.kind = "panic"
              THEN UNCHANGED <<streams, origin>>
              ELSE /\ streams' = [streams EXCEPT ![i] = r.stream]
                   /\ origin' = [origin EXCEPT ![i] = <<bpm, rate>>]
    /\ out' = [out EXCEPT ![i] = <<>>]
    /\ calls' = [calls EXCEPT ![i] = 0]
    /\ UNCHANGED <<chord, overflow_checks>>

\* s.next()
\* (NextSample_shared: the same, but the index is shared by the streams.)
NextSample_shared(i) ==
    /\ ~Aborted
    /\ streams[i].live
    /\ calls[i] < streams[i].max + ExtraCalls
    /\ LET r == next(streams[i], overflow_checks)
       IN  /\ ret' = [op |-> "next", stream |-> i, arg |-> <<>>,
                      kind |-> r.kind, val |-> r.val, log |-> FALSE]
           /\ streams' = [j \in Streams |->
                             IF j = i
                             THEN r.stream
                             ELSE IF streams[j].live /\ r.stream.current <= streams[j].max
                                  THEN [streams[j] EXCEPT !.current = r.stream.current]
                                  ELSE streams[j]]
           /\ out' = [out EXCEPT ![i] =
                         IF r.kind = "Some" THEN Append(@, r.val) ELSE @]
    /\ calls' = [calls EXCEPT ![i] = @ + 1]
    /\ UNCHANGED <<chord, origin, overflow_checks>>
NextSample(i) ==
    /\ ~Aborted
    /\ streams[i].live
    /\ calls[i] < streams[i].max + ExtraCalls
    /\ LET r == next(streams[i], overflow_checks)
       IN  /\ ret' = [op |-> "next", stream |-> i, arg |-> <<>>,
                      kind |-> r.kind, val |-> r.val, log |-> FALSE]
           /\ streams' = [streams EXCEPT ![i] = r.stream]
           /\ out' = [out EXCEPT ![i] =
                         IF r.kind = "Some" THEN Append(@, r.val) ELSE @]
    /\ calls' = [calls EXCEPT ![i] = @ + 1]
    /\ UNCHANGED <<chord, origin, overflow_checks>>

\* s.size_hint() (and so s.len())
SizeHint(i) ==
    /\ ~Aborted
    /\ streams[i].live
    /\ LET r == size_hint(streams[i])
       IN  ret' = [op |-> "size_hint", stream |-> i, arg |-> <<r.lo, r.hi>>,
                   kind |-> r.kind, val |-> r.lo, log |-> FALSE]
    /\ UNCHANGED <<chord, streams, origin, out, calls, overflow_checks>>

\* drop(s): the borrow of the chord's pitches ends.
Drop(i) ==
    /\ ~Aborted
    /\ streams[i].live
    /\ streams' = [streams EXCEPT ![i] = Idle]
    /\ origin' = [origin EXCEPT ![i] = <<0, 0>>]
    /\ out' = [out EXCEPT ![i] = <<>>]
    /\ calls' = [calls EXCEPT ![i] = 0]
    /\ ret' = [op |-> "drop", stream |-> i, arg |-> <<>>, kind |-> "ok",
               val |-> 0, log |-> FALSE]
    /\ UNCHANGED <<chord, overflow_checks>>

\* chord.pitches_mut().push(p): `&mut self` is granted only while no stream
\* borrows the chord.
PitchesMutPush(p) ==
    /\ ~Aborted
    /\ \A i \in Streams : ~streams[i].live
    /\ Len(chord.pitches) < MaxPitches
    /\ chord' = [chord EXCEPT !.pitches = Append(@, p)]
    /\ ret' = [op |-> "pitches_mut", stream |-> 0, arg |-> <<>>, kind |-> "ok",
               val |-> 0, log |-> FALSE]
    /\ UNCHANGED <<streams, origin, out, calls, overflow_checks>>

\* chord.pitches_mut().pop()
PitchesMutPop ==
    /\ ~Aborted
    /\ \A i \in Streams : ~streams[i].live
    /\ chord.pitches # <<>>
    /\ chord' = [chord EXCEPT !.pitches = SubSeq(@, 1, Len(@) - 1)]
    /\ ret' = [op |-> "pitches_mut", stream |-> 0, arg |-> <<>>, kind |-> "ok",
               val |-> 0, log |-> FALSE]
    /\ UNCHANGED <<streams, origin, out, calls, overflow_checks>>

\* chord.length.duration(bpm): a pure function of the length and the tempo,
\* applied while no stream is outstanding.
Duration(bpm) ==
    /\ ~Aborted
    /\ \A i \in Streams : ~streams[i].live
    /\ LET d == duration(chord.length, bpm)
       IN  ret' = [op |-> "duration", stream |-> 0, arg |-> <<bpm>>,
                   kind |-> d.kind, val |-> d.nanos, log |-> FALSE]
    /\ UNCHANGED <<chord, streams, origin, out, calls, overflow_checks>>

Next ==
    \/ \E i \in Streams, bpm \in Bpms, rate \in Rates : Samples(i, bpm, rate)
    \/ \E i \in Streams : NextSample(i)
    \/ \E i \in Streams : SizeHint(i)
    \/ \E i \in Streams : Drop(i)
    \/ \E p \in Pitches : PitchesMutPush(p)
    \/ PitchesMutPop
    \/ \E bpm \in Bpms : Duration(bpm)

Spec == Init /\ [][Next]_vars

(***************************************************************************)
(* The pure constructors of Pitch, each applied once to every input of the *)
(* model.  Only `ret` changes.                                             *)
(***************************************************************************)
InitPure ==
    /\ chord = [pitches |-> <<>>, length |-> "Quarter", volume |-> 4]
    /\ streams = [i \in Streams |-> Idle]
    /\ origin = [i \in Streams |-> <<0, 0>>]
    /\ out = [i \in Streams |-> <<>>]
    /\ calls = [i \in Streams |-> 0]
    /\ ret = NoCall
    /\ overflow_checks \in BOOLEAN

\* Pitch::new(name, octave)
PitchNew(name, octave) ==
    /\ ret = NoCall
    /\ ret' = [op |-> "new", stream |-> 0, arg |-> <<name, octave>>,
               kind |-> "ok", val |-> new(name, octave), log |-> FALSE]
    /\ UNCHANGED <<chord, streams, origin, out, calls, overflow_checks>>

\* Pitch::new_from_freq(f)
PitchNewFromFreq(f) ==
    /\ ret = NoCall
    /\ LET r == new_from_freq(f)
       IN  ret' = [op |-> "new_from_freq", stream |-> 0, arg |-> <<f>>,
                   kind |-> r.kind, val |-> r.val, log |-> r.log]
    /\ UNCHANGED <<chord, streams, origin, out, calls, overflow_checks>>

NextPure ==
    \/ \E name \in Names, octave \in Octaves : PitchNew(name, octave)
    \/ \E f \in Freqs : PitchNewFromFreq(f)

SpecPure == InitPure /\ [][NextPure]_vars

(***************************************************************************)
(* What the claims speak of.                                               *)
(***************************************************************************)
Live == {i \in Streams : streams[i].live}

\* A next() call on stream i is the step that raises calls[i] by one.
IsNextStep(i) == streams[i].live /\ calls'[i] = calls[i] + 1

\* round(duration_seconds * rate) on the exact quotient 60 / (bpm * 2^k),
\* rounded half away from zero, for bpm > 0.
ClaimedCount(length, bpm, rate) ==
    LET k == Length[length]
        n == IF k < 0 THEN 60 * rate * 2^(-k) ELSE 60 * rate
        d == IF k < 0 THEN bpm ELSE bpm * 2^k
    IN  (2 * n + d) \div (2 * d)

\* The number of samples next() still yields from s before it stops yielding.
RECURSIVE Remaining(_, _)
Remaining(s, checks) ==
    LET r == next(s, checks)
    IN  IF r.kind = "Some" THEN 1 + Remaining(r.stream, checks) ELSE 0

\* The semitone classes in chromatic order, C = 0 ... B = 11.
Chromatic ==
    <<"C", "CS", "D", "DS", "E", "F", "FS", "G", "GS", "A", "AS", "B">>

SemitoneClass(name) == (CHOOSE k \in 1..12 : Chromatic[k] = name) - 1

RECURSIVE SumSeq(_)
SumSeq(xs) == IF xs = <<>> THEN 0 ELSE Head(xs) + SumSeq(Tail(xs))

\* The sample of stream s at its current index if every contribution and
\* every sum wrapped modulo 2^16.
WrappedHarmonic(s, p, h) ==
    Wrap16(TruncDiv(Sin8((s.current * freq(p) * h) \div s.rate)
                        * (s.volume \div 2^(h - 1)), 10000))

WrappedSample(s) ==
    Wrap16(SumSeq([i \in 1..Len(s.pitches) |->
              Wrap16(SumSeq([h \in 1..4 |-> WrappedHarmonic(s, s.pitches[i], h)]))]))

(***************************************************************************)
(* C1: a stream returned by Chord::samples(bpm, rate) holds                *)
(* max = round(duration_seconds * rate), its first max calls to next()     *)
(* each return a sample, and every later call signals end-of-sequence.     *)
(***************************************************************************)
C1_ExactLength ==
    \A i \in Live :
        LET s == streams[i]
            n == calls[i]
        IN  /\ s.max = ClaimedCount(chord.length, origin[i][1], origin[i][2])
            /\ n <= s.max => Len(out[i]) = n
            /\ n > s.max => Len(out[i]) = s.max
            /\ (ret.op = "next" /\ ret.stream = i)
                  => ret.kind = (IF n <= s.max THEN "Some" ELSE "None")

(***************************************************************************)
(* C2: at every point of a stream's life size_hint reports                 *)
(* (max - current, Some(max - current)), the subtraction does not          *)
(* underflow, and that number is the number of samples next() will still   *)
(* yield.                                                                  *)
(***************************************************************************)
C2_RemainingLength ==
    \A i \in Live :
        LET s == streams[i]
            h == size_hint(s)
        IN  /\ h.kind = "ok"
            /\ h.lo = s.max - s.current
            /\ h.hi = h.lo
            /\ h.lo = Remaining(s, overflow_checks)
            /\ (ret.op = "size_hint" /\ ret.stream = i) => ret.arg = <<h.lo, h.hi>>

(***************************************************************************)
(* C3: two streams requested from the unmodified chord with the same bpm   *)
(* and rate yield the same samples element for element, each from index 0, *)
(* under every interleaving of their next() calls; a next() call on one    *)
(* stream changes neither the index nor the output of the other.           *)
(***************************************************************************)
C3_SamePrefix ==
    /\ \A i \in Live : Len(out[i]) = streams[i].current
    /\ \A i, j \in Live :
          origin[i] = origin[j] =>
              \A k \in 1..Len(out[i]) : k <= Len(out[j]) => out[i][k] = out[j][k]

C3_Isolated ==
    /\ \A i \in Streams :
          IsNextStep(i) =>
              \A j \in Streams \ {i} : streams'[j] = streams[j] /\ out'[j] = out[j]
    /\ \A i \in Streams :
          (~streams[i].live /\ streams'[i].live) => streams'[i].current = 0

C3_IndependentStreams == []C3_SamePrefix /\ [][C3_Isolated]_vars

C3_Witness ==
    /\ Live = Streams
    /\ origin[1] = origin[2]
    /\ Len(out[1]) >= 3
    /\ Len(out[2]) = 2
    /\ out[2][2] # 0
    /\ ret.op = "next" /\ ret.stream = 2

(***************************************************************************)
(* C4: samples(), next() and size_hint() leave the chord's pitches, length *)
(* and volume as they were.                                                *)
(***************************************************************************)
C4_ChordUnchanged ==
    [][ret'.op \in {"samples", "next", "size_hint"} => chord' = chord]_vars

C4_Witness ==
    /\ Live = Streams
    /\ Len(chord.pitches) = 2
    /\ streams[1].max >= 2
    /\ calls[1] > streams[1].max
    /\ streams[2].current >= 1
    /\ ret.op = "size_hint"

(***************************************************************************)
(* C5: Pitch::new_from_freq(freq) panics for every freq <= 0, before the   *)
(* logarithm is evaluated and without producing a Pitch, and returns a     *)
(* Pitch for every freq > 0.                                               *)
(***************************************************************************)
C5_NewFromFreqGuard ==
    ret.op = "new_from_freq" =>
        /\ ret.arg[1] <= 0 => ret.kind = "panic" /\ ~ret.log
        /\ ret.arg[1] > 0 => ret.kind = "ok" /\ I32Min <= ret.val /\ ret.val <= I32Max

C5_Witness ==
    /\ ret.op = "new_from_freq"
    /\ ret.arg[1] = 0
    /\ ret.kind = "panic"

(***************************************************************************)
(* C6, as claimed: for every bpm <= 0, Length::duration(bpm) and           *)
(* Chord::samples(bpm, rate) return a result and do not abort.             *)
(***************************************************************************)
C6_NonPositiveBpmAccepted ==
    (ret.op \in {"duration", "samples"} /\ ret.arg[1] <= 0) => ret.kind = "ok"

(***************************************************************************)
(* C6, amended: for bpm = 0 and for every negative bpm,                    *)
(* Length::duration(bpm) and Chord::samples(bpm, rate) panic; samples      *)
(* returns no stream.                                                      *)
(***************************************************************************)
C6_NonPositiveBpmPanics ==
    (ret.op \in {"duration", "samples"} /\ ret.arg[1] <= 0) =>
        /\ ret.kind = "panic"
        /\ ret.op = "samples" => ~streams[ret.stream].live

C6_Witness ==
    /\ ret.op = "samples"
    /\ ret.arg[1] < 0
    /\ ret.kind = "panic"

(***************************************************************************)
(* C7: Pitch::new(name, octave) returns                                    *)
(* (octave - 4) * 12 + semitone_class - 9 for every name (C = 0 ... B = 11)*)
(* and every octave of a u8, inside the i32 range;                         *)
(* new(A, 4) = 0 = Pitch::default() and new(C, 3) = -21.                   *)
(***************************************************************************)
C7_PitchNew ==
    ret.op = "new" =>
        LET name == ret.arg[1]
            octave == ret.arg[2]
        IN  /\ ret.kind = "ok"
            /\ ret.val = (octave - 4) * 12 + SemitoneClass(name) - 9
            /\ I32Min <= ret.val /\ ret.val <= I32Max
            /\ (name = "A" /\ octave = 4) => ret.val = 0
            /\ (name = "C" /\ octave = 3) => ret.val = -21

C7_Witness ==
    /\ ret.op = "new"
    /\ ret.arg = <<"B", U8Max>>
    /\ ret.val = 3014

(***************************************************************************)
(* C8: a stream over a chord with no pitches yields only zeros, and as     *)
(* many of them as a stream over any non-empty chord of the same length,   *)
(* bpm and rate holds: max = round(duration_seconds * rate).               *)
(***************************************************************************)
C8_EmptyChord ==
    \A i \in Live :
        LET s == streams[i]
        IN  s.pitches = <<>> =>
                /\ \A k \in 1..Len(out[i]) : out[i][k] = 0
                /\ Len(out[i]) = (IF calls[i] <= s.max THEN calls[i] ELSE s.max)
                /\ s.max = ClaimedCount(chord.length, origin[i][1], origin[i][2])
                /\ \A ps \in SeqsUpTo(Pitches, MaxPitches) :
                      samples([chord EXCEPT !.pitches = ps],
                              origin[i][1], origin[i][2]).stream.max = s.max

C8_Witness ==
    \E i \in Live :
        /\ streams[i].pitches = <<>>
        /\ streams[i].max >= 4
        /\ Len(out[i]) = streams[i].max
        /\ calls[i] > streams[i].max
        /\ ret.op = "next" /\ ret.stream = i /\ ret.kind = "None"

(***************************************************************************)
(* C9: every next() call on a stream that is not exhausted returns a       *)
(* sample and never fails, and the sample is the sum of the harmonic       *)
(* contributions with every contribution and every sum wrapped modulo 2^16 *)
(* into the i16 range.                                                     *)
(***************************************************************************)
C9_WrapsNeverFails ==
    \A i \in Live :
        (ret.op = "next" /\ ret.stream = i /\ ret.kind # "None") =>
            /\ ret.kind = "Some"
            /\ ret.val = WrappedSample([streams[i] EXCEPT !.current = @ - 1])

(***************************************************************************)
(* C10: 0 <= current <= max in every state; a next() call with             *)
(* current < max returns a sample and raises current by one, a next() call *)
(* with current >= max reports end-of-sequence and leaves current alone;   *)
(* no next() call changes max, rate, volume or the pitch view.             *)
(***************************************************************************)
C10_Range == \A i \in Live : 0 <= streams[i].current /\ streams[i].current <= streams[i].max

C10_Step ==
    \A i \in Streams :
        IsNextStep(i) =>
            LET s == streams[i]
                t == streams'[i]
            IN  /\ ret'.op = "next" /\ ret'.stream = i
                /\ s.current < s.max => ret'.kind = "Some" /\ t.current = s.current + 1
                /\ s.current >= s.max => ret'.kind = "None" /\ t.current = s.current
                /\ t.max = s.max /\ t.rate = s.rate /\ t.volume = s.volume
                /\ t.pitches = s.pitches

C10_IndexDiscipline == []C10_Range /\ [][C10_Step]_vars

====
